---- MODULE Spec2Model ----
(***************************************************************************)
(* Linearly homomorphic time-lock puzzles (src/src/lib.rs).                *)
(*                                                                         *)
(* The library is four pure operations over one parameter set: setup,      *)
(* generate, solve and evaluate.  The model runs them as a scenario:       *)
(* setup once, generate a vector of puzzles, optionally evaluate it, then  *)
(* solve one puzzle.  Every value a caller can observe (the parameter set, *)
(* each puzzle, each result or panic) is a state variable; the values the  *)
(* code draws and then drops (p, q, the random draws) and the secrets are  *)
(* kept next to them so that properties can speak about them.              *)
(***************************************************************************)
EXTENDS Integers, Sequences, FiniteSets, TLC

\* Bit length of the safe primes, setup's `lambda`, ranges over 3..MaxLambda.
MaxLambda == 3
\* setup's `difficulty` ranges over 0..MaxDifficulty.
MaxDifficulty == 3
\* The unit drawn by setup's loop is taken from 1..MaxUnit.
MaxUnit == 3
\* generate's random exponent r is taken from 1..MaxRand.
MaxRand == 2
\* Secrets are taken from 0..MaxSecret, and n - 1 and n + MaxSecret.
MaxSecret == 1
\* Number of puzzles pushed on the vector before evaluate.
MaxPuzzles == 2
\* Largest integer the model's arithmetic represents; BigUint is unbounded,
\* so products above it are left out by the guards of the actions.
IntCap == 2^30 + (2^30 - 1)

None == [some |-> FALSE]
Some(x) == [some |-> TRUE, val |-> x]

----------------------------------------------------------------------------
(* Arithmetic of num_bigint / num_integer, as used by the library.         *)

RECURSIVE Gcd(_, _)
Gcd(a, b) == IF b = 0 THEN a ELSE Gcd(b, a % b)

\* BigUint::modpow(exp, m): base^exp mod m by square and multiply.
RECURSIVE ModPow(_, _, _)
ModPow(base, exp, m) ==
  IF exp = 0 THEN 1 % m
  ELSE LET half == ModPow(base, exp \div 2, m)
           sq   == (half * half) % m
       IN  IF exp % 2 = 1 THEN (sq * (base % m)) % m ELSE sq

\* Extended Euclid: g = gcd(a, b) with a*x + b*y = g.
RECURSIVE EGcd(_, _)
EGcd(a, b) ==
  IF b = 0 THEN [g |-> a, x |-> 1, y |-> 0]
  ELSE LET r == EGcd(b, a % b)
       IN  [g |-> r.g, x |-> r.y, y |-> r.x - (a \div b) * r.y]

\* BigUint::modinv(m): Some(x) with a*x = 1 (mod m), x in [0, m), or None
\* when a and m are not coprime.
ModInv(a, m) ==
  LET e == EGcd(a % m, m)
  IN  IF e.g = 1 THEN Some(e.x % m) ELSE None

\* (a * b) % m for a BigUint a of any size: the product is taken on the
\* residues so that it stays within IntCap; the value is the same.
MulMod(a, b, m) == ((a % m) * (b % m)) % m

----------------------------------------------------------------------------
(* The prime generator (module num_primes, not part of src/).              *)

IsPrime(k) == k >= 2 /\ \A d \in 2..(k - 1) : d * d > k \/ k % d # 0

IsSafePrime(p) == IsPrime(p) /\ p % 2 = 1 /\ IsPrime((p - 1) \div 2)

\* Generator::safe_prime(lambda): some safe prime of exactly lambda bits.
safe_prime(lambda) ==
  {p \in (2^(lambda - 1))..(2^lambda - 1) : IsSafePrime(p)}

----------------------------------------------------------------------------
(* The four operations.                                                    *)

Ok(x) == [ok |-> TRUE, val |-> x]
Panic(why) == [ok |-> FALSE, err |-> why]

\* A subtraction that stops at zero instead of panicking.
SaturatingSub(a, b) == IF a >= b THEN Ok(a - b) ELSE Ok(0)

\* BigUint subtraction: panics when the result would be negative.
CheckedSub(a, b) == IF a >= b THEN Ok(a - b) ELSE Panic("subtract_underflow")

\* An unwrap that swallows None and goes on with 1.
UnwrapOrOne(opt) == IF opt.some THEN Ok(opt.val) ELSE Ok(1)

\* Option::unwrap: panics on None.
Unwrap(opt) == IF opt.some THEN Ok(opt.val) ELSE Panic("unwrap_none")

\* LHTLP::setup with its draws made explicit: p, q from the prime
\* generator, rand the value the loop breaks with.
setup(p, q, rand, difficulty) ==
  LET n         == p * q
      g2        == rand ^ 2
      g         == Unwrap(ModInv(g2, n)).val
      tot_div_2 == ((p - 1) * (q - 1)) \div 2
      pow       == ModPow(2, difficulty, tot_div_2)
      h         == ModPow(g, pow, n)
  IN  [difficulty |-> difficulty, n |-> n, g |-> g, h |-> h]

\* LHTLP::generate with its draw r made explicit.
generate(self, secret, r) ==
  LET n2 == self.n ^ 2
      u  == ModPow(self.g, r, self.n)
      v  == (ModPow(self.h, r * self.n, n2) * ModPow(1 + self.n, secret, n2)) % n2
  IN  <<u, v>>

\* An exponent that asks for one squaring too many.
SquaringExponentOffByOne(difficulty) == 2 ^ (difficulty + 1)

\* The exponent of solve's first modpow, 2.pow(difficulty), a plain integer.
SquaringExponent(difficulty) == 2 ^ difficulty

\* LHTLP::solve: the secret, or the panic the expression ends in.
solve(self, puzzle) ==
  LET n2  == self.n ^ 2
      w   == ModPow(puzzle[1], SquaringExponent(self.difficulty), self.n)
      inv == Unwrap(ModInv(ModPow(w, self.n, n2), n2))
  IN  IF ~inv.ok THEN inv
      ELSE LET decoded == MulMod(puzzle[2], inv.val, n2)
               minus1  == CheckedSub(decoded, 1)
           IN  IF ~minus1.ok THEN minus1
               ELSE Ok(minus1.val \div self.n)

\* One step of evaluate's fold: the componentwise integer product.
FoldStep(acc, x) == <<acc[1] * x[1], acc[2] * x[2]>>

\* LHTLP::evaluate: fold of FoldStep from (1, 1), left to right.
RECURSIVE evaluate(_)
evaluate(puzzles) ==
  IF puzzles = <<>> THEN <<1, 1>>
  ELSE FoldStep(evaluate(SubSeq(puzzles, 1, Len(puzzles) - 1)),
                puzzles[Len(puzzles)])

\* The products of evaluate(puzzles) stay within IntCap.
RECURSIVE Representable(_)
Representable(puzzles) ==
  IF puzzles = <<>> THEN TRUE
  ELSE /\ Representable(SubSeq(puzzles, 1, Len(puzzles) - 1))
       /\ LET acc == evaluate(SubSeq(puzzles, 1, Len(puzzles) - 1))
              x   == puzzles[Len(puzzles)]
          IN  /\ x[1] = 0 \/ acc[1] <= IntCap \div x[1]
              /\ x[2] = 0 \/ acc[2] <= IntCap \div x[2]

----------------------------------------------------------------------------
(* The scenario.                                                           *)

VARIABLES
  pc,        \* "start", "ready" (parameters exist), "done" (a solve returned)
  lhtlp,     \* the parameter set, LHTLP { difficulty, n, g, h }
  trapdoor,  \* setup's locals p, q and rand, dropped by the code
  puzzles,   \* the generated puzzles with the secret and r of each
  bundle,    \* the result of evaluate and how its argument was built
  answer     \* the outcome of solve and the puzzle it was given

vars == <<pc, lhtlp, trapdoor, puzzles, bundle, answer>>

NoValue == [kind |-> "none"]

Init ==
  /\ pc = "start"
  /\ lhtlp = NoValue
  /\ trapdoor = NoValue
  /\ puzzles = <<>>
  /\ bundle = NoValue
  /\ answer = NoValue

\* The secrets handed to generate: small ones, the largest one below the
\* modulus, and one above it.
SecretDraws(n) == (0..MaxSecret) \cup {n - 1, n + MaxSecret}

Setup ==
  /\ pc = "start"
  /\ \E lambda \in 3..MaxLambda, difficulty \in 0..MaxDifficulty :
       \E p \in safe_prime(lambda), q \in safe_prime(lambda) :
         \E rand \in 1..MaxUnit :
           /\ rand < p * q
           /\ Gcd(rand, p * q) = 1
           /\ lhtlp' = setup(p, q, rand, difficulty)
           /\ trapdoor' = [p |-> p, q |-> q, rand |-> rand]
  /\ pc' = "ready"
  /\ UNCHANGED <<puzzles, bundle, answer>>

\* generate, its puzzle pushed on the vector.  The vector is filled with
\* nondecreasing secrets; Evaluate hands it to evaluate in every order.
Generate ==
  /\ pc = "ready"
  /\ bundle = NoValue
  /\ Len(puzzles) < MaxPuzzles
  /\ \E secret \in SecretDraws(lhtlp.n), r \in 1..MaxRand :
       /\ r < lhtlp.n ^ 2
       /\ puzzles # <<>> => puzzles[Len(puzzles)].secret <= secret
       /\ puzzles' = Append(puzzles,
            [puzzle |-> generate(lhtlp, secret, r), secret |-> secret, r |-> r])
  /\ UNCHANGED <<pc, lhtlp, trapdoor, bundle, answer>>

Puzzle(i) == puzzles[i].puzzle

AllPuzzles == [i \in 1..Len(puzzles) |-> Puzzle(i)]

Orders == {f \in [1..Len(puzzles) -> 1..Len(puzzles)] :
             \A i, j \in 1..Len(puzzles) : f[i] = f[j] => i = j}

\* evaluate on the vector taken in some order.
Evaluate ==
  /\ pc = "ready"
  /\ bundle = NoValue
  /\ Representable(AllPuzzles)
  /\ \E f \in Orders :
       bundle' = [kind |-> "flat", order |-> f,
                  puzzle |-> evaluate([i \in 1..Len(puzzles) |-> Puzzle(f[i])])]
  /\ UNCHANGED <<pc, lhtlp, trapdoor, puzzles, answer>>

\* evaluate on the two puzzles evaluate returns for a prefix and the rest.
EvaluateNested ==
  /\ pc = "ready"
  /\ bundle = NoValue
  /\ Representable(AllPuzzles)
  /\ \E k \in 0..Len(puzzles) :
       LET A == SubSeq(AllPuzzles, 1, k)
           B == SubSeq(AllPuzzles, k + 1, Len(puzzles))
       IN  bundle' = [kind |-> "nested", split |-> k,
                      puzzle |-> evaluate(<<evaluate(A), evaluate(B)>>)]
  /\ UNCHANGED <<pc, lhtlp, trapdoor, puzzles, answer>>

\* solve on a generated puzzle.
Solve ==
  /\ pc = "ready"
  /\ bundle = NoValue
  /\ \E i \in 1..Len(puzzles) :
       answer' = [kind |-> "generated", index |-> i, puzzle |-> Puzzle(i),
                  out |-> solve(lhtlp, Puzzle(i))]
  /\ pc' = "done"
  /\ UNCHANGED <<lhtlp, trapdoor, puzzles, bundle>>

\* solve on the puzzle evaluate returned.
SolveBundle ==
  /\ pc = "ready"
  /\ bundle # NoValue
  /\ answer' = [kind |-> "bundle", puzzle |-> bundle.puzzle,
                out |-> solve(lhtlp, bundle.puzzle)]
  /\ pc' = "done"
  /\ UNCHANGED <<lhtlp, trapdoor, puzzles, bundle>>

\* Second components tried with a puzzle that generate did not produce.
ForeignV(n) == {0, 1, n, n + 1, n ^ 2 - 1}

\* solve on a puzzle that was not produced under these parameters.
SolveForeign ==
  /\ pc = "ready"
  /\ puzzles = <<>>
  /\ bundle = NoValue
  /\ \E u \in 0..(lhtlp.n - 1), v \in ForeignV(lhtlp.n) :
       answer' = [kind |-> "foreign", puzzle |-> <<u, v>>,
                  out |-> solve(lhtlp, <<u, v>>)]
  /\ pc' = "done"
  /\ UNCHANGED <<lhtlp, trapdoor, puzzles, bundle>>

Next ==
  \/ Setup
  \/ Generate
  \/ Evaluate
  \/ EvaluateNested
  \/ Solve
  \/ SolveBundle
  \/ SolveForeign

Spec == Init /\ [][Next]_vars

----------------------------------------------------------------------------
(* Values the properties compare the operations against.                   *)

RECURSIVE SumSecrets(_)
SumSecrets(k) == IF k = 0 THEN 0 ELSE SumSecrets(k - 1) + puzzles[k].secret

\* The exact integer sum of the secrets of the generated puzzles.
SecretSum == SumSecrets(Len(puzzles))

\* x squared t times modulo m, one squaring after the other.
RECURSIVE SquareTimes(_, _, _)
SquareTimes(x, t, m) ==
  IF t = 0 THEN x % m ELSE (SquareTimes(x, t - 1, m) ^ 2) % m

\* The decoding of (u, v) with no squaring at all:
\* (v * inverse(u^n mod n^2) mod n^2 - 1) / n.
ImmediateDecoding(puzzle) ==
  LET n   == lhtlp.n
      n2  == n * n
      inv == ModInv(ModPow(puzzle[1], n, n2), n2).val
  IN  (MulMod(puzzle[2], inv, n2) - 1) \div n

\* Componentwise product of the generated puzzles, reduced at every step.
RECURSIVE ReducedProduct(_)
ReducedProduct(k) ==
  IF k = 0 THEN <<1, 1>>
  ELSE LET acc == ReducedProduct(k - 1)
       IN  <<(acc[1] * Puzzle(k)[1]) % lhtlp.n,
             (acc[2] * Puzzle(k)[2]) % (lhtlp.n ^ 2)>>

Solved == answer # NoValue
Evaluated == bundle # NoValue
DistinctPrimes == trapdoor # NoValue /\ trapdoor.p # trapdoor.q

----------------------------------------------------------------------------
(* The properties.                                                         *)

\* C1: round trip.  For every parameter set of setup, every secret below the
\* modulus and every r of generate, solve(generate(secret)) returns secret.
RoundTrip ==
  (Solved /\ answer.kind = "generated"
     /\ puzzles[answer.index].secret < lhtlp.n)
    => answer.out = Ok(puzzles[answer.index].secret)

\* The round trip when setup drew two different primes.
RoundTripDistinctPrimes == DistinctPrimes => RoundTrip

\* C2: homomorphism.  When the sum of the secrets is below the modulus,
\* solving evaluate of the generated puzzles returns the exact integer sum.
Homomorphism ==
  (Solved /\ answer.kind = "bundle" /\ bundle.kind = "flat"
     /\ SecretSum < lhtlp.n)
    => answer.out = Ok(SecretSum)

\* The homomorphism when setup drew two different primes.
HomomorphismDistinctPrimes == DistinctPrimes => Homomorphism

\* C3: identity element.  evaluate of the empty sequence is the puzzle (1, 1)
\* and solves to 0; evaluate of a singleton [p] with p generated from a
\* secret below the modulus solves to that secret.
IdentityElement ==
  /\ (Evaluated /\ bundle.kind = "flat" /\ puzzles = <<>>)
       => bundle.puzzle = <<1, 1>>
  /\ (Solved /\ answer.kind = "bundle" /\ bundle.kind = "flat"
        /\ puzzles = <<>>)
       => answer.out = Ok(0)
  /\ (Solved /\ answer.kind = "bundle" /\ bundle.kind = "flat"
        /\ Len(puzzles) = 1 /\ puzzles[1].secret < lhtlp.n)
       => answer.out = Ok(puzzles[1].secret)

\* The empty-sequence half of the identity element, and the singleton half
\* when setup drew two different primes.
IdentityElementDistinctPrimes ==
  /\ (Evaluated /\ bundle.kind = "flat" /\ puzzles = <<>>)
       => bundle.puzzle = <<1, 1>>
  /\ (Solved /\ answer.kind = "bundle" /\ puzzles = <<>>)
       => answer.out = Ok(0)
  /\ DistinctPrimes => IdentityElement

\* C4: semantic overflow.  A secret, or a sum of secrets, at or above the
\* modulus makes solve return it reduced modulo the modulus, without error.
OverflowWraps ==
  /\ (Solved /\ answer.kind = "generated"
        /\ puzzles[answer.index].secret >= lhtlp.n)
       => answer.out = Ok(puzzles[answer.index].secret % lhtlp.n)
  /\ (Solved /\ answer.kind = "bundle" /\ SecretSum >= lhtlp.n)
       => answer.out = Ok(SecretSum % lhtlp.n)

\* The wraparound when setup drew two different primes.
OverflowWrapsDistinctPrimes == DistinctPrimes => OverflowWraps

\* w^n mod n^2, the value solve inverts, shares a factor with n^2.
BlindingNotInvertible(puzzle) ==
  LET n  == lhtlp.n
      n2 == n ^ 2
      w  == SquareTimes(puzzle[1], lhtlp.difficulty, n)
  IN  Gcd(ModPow(w, n, n2), n2) # 1

\* C5: non-invertibility is fatal.  For every puzzle (u, v) given to solve,
\* w^n mod n^2 has no inverse exactly when gcd(u, n) # 1, and solve then ends
\* in the panic of unwrap and returns no secret.
NonInvertibleIsFatal ==
  Solved =>
    /\ BlindingNotInvertible(answer.puzzle) <=> Gcd(answer.puzzle[1], lhtlp.n) # 1
    /\ Gcd(answer.puzzle[1], lhtlp.n) # 1 => answer.out = Panic("unwrap_none")

\* A puzzle whose u is a nonzero non-unit was solved, and solve panicked.
NonInvertibleWitness ==
  /\ Solved
  /\ answer.kind = "foreign"
  /\ answer.puzzle[1] # 0
  /\ Gcd(answer.puzzle[1], lhtlp.n) # 1
  /\ ~answer.out.ok

\* C6: difficulty 0.  forcingElement equals generator; every result of solve
\* is the immediate decoding of its puzzle; and solve(generate(secret)) is
\* secret for every secret below the modulus, 0 included.
ZeroDifficulty ==
  (pc # "start" /\ lhtlp.difficulty = 0) =>
    /\ lhtlp.h = lhtlp.g
    /\ (Solved /\ answer.out.ok)
         => answer.out.val = ImmediateDecoding(answer.puzzle)
    /\ (Solved /\ answer.kind = "generated"
          /\ puzzles[answer.index].secret < lhtlp.n)
         => answer.out = Ok(puzzles[answer.index].secret)

\* With difficulty 0 and a generator other than 1, the largest secret below
\* the modulus was generated and solved.
ZeroDifficultyWitness ==
  /\ Solved
  /\ lhtlp.difficulty = 0
  /\ lhtlp.g # 1
  /\ answer.kind = "generated"
  /\ puzzles[answer.index].secret = lhtlp.n - 1
  /\ answer.out = Ok(lhtlp.n - 1)

\* C7: trapdoor shortcut.  For every p, q, unit and difficulty T of setup,
\* forcingElement equals generator squared T times modulo the modulus.
TrapdoorShortcut ==
  pc # "start" =>
    lhtlp.h = SquareTimes(lhtlp.g, lhtlp.difficulty, lhtlp.n)

\* The shortcut when setup drew two different primes.
TrapdoorShortcutDistinctPrimes == DistinctPrimes => TrapdoorShortcut

\* C8: reduced residues.  Every puzzle of generate and of evaluate has u in
\* [0, n) and v in [0, n^2); evaluate returns the products reduced modulo n
\* and n^2.
PuzzlesReduced ==
  /\ \A i \in 1..Len(puzzles) :
       /\ Puzzle(i)[1] \in 0..(lhtlp.n - 1)
       /\ Puzzle(i)[2] \in 0..(lhtlp.n ^ 2 - 1)
  /\ Evaluated =>
       /\ bundle.puzzle[1] \in 0..(lhtlp.n - 1)
       /\ bundle.puzzle[2] \in 0..(lhtlp.n ^ 2 - 1)
       /\ bundle.puzzle = ReducedProduct(Len(puzzles))

\* What holds of the puzzles instead: generate's are reduced, evaluate's are
\* congruent to the reduced products.
PuzzlesCongruent ==
  /\ \A i \in 1..Len(puzzles) :
       /\ Puzzle(i)[1] \in 0..(lhtlp.n - 1)
       /\ Puzzle(i)[2] \in 0..(lhtlp.n ^ 2 - 1)
  /\ Evaluated =>
       /\ bundle.puzzle[1] % lhtlp.n = ReducedProduct(Len(puzzles))[1]
       /\ bundle.puzzle[2] % (lhtlp.n ^ 2) = ReducedProduct(Len(puzzles))[2]

InRange(puzzle) ==
  /\ Gcd(puzzle[1], lhtlp.n) = 1
  /\ puzzle[2] \in 0..(lhtlp.n ^ 2 - 1)

\* C9: non-invertibility is the only failure.  For every puzzle (u, v) with
\* gcd(u, n) = 1 and v in [0, n^2), solve returns an integer without error.
OnlyNonInvertibleFails ==
  (Solved /\ InRange(answer.puzzle)) => answer.out.ok

\* C9, amended: for every puzzle (u, v) with gcd(u, n) = 1 and v in [0, n^2),
\* solve returns an integer, which is in [0, n), exactly when v # 0; for
\* v = 0 the subtraction decoded - 1 goes below zero and solve panics.
OnlyNonInvertibleOrZeroFails ==
  (Solved /\ InRange(answer.puzzle)) =>
    /\ answer.out.ok <=> answer.puzzle[2] # 0
    /\ answer.out.ok => answer.out.val \in 0..(lhtlp.n - 1)
    /\ answer.puzzle[2] = 0 => answer.out = Panic("subtract_underflow")

\* A puzzle that generate did not produce, with u a unit other than 1 and v
\* a nonzero multiple of n, was solved and solve returned an integer.
ForeignUnitWitness ==
  /\ Solved
  /\ answer.kind = "foreign"
  /\ answer.puzzle[1] > 1
  /\ InRange(answer.puzzle)
  /\ answer.puzzle[2] = lhtlp.n
  /\ answer.out.ok

\* C10: evaluate composes and is order independent.  evaluate of the puzzles
\* in any order is the same puzzle; evaluate([evaluate(A), evaluate(B)])
\* solves to what evaluate(A ++ B) solves to, which is the sum of the secrets
\* when that sum is below the modulus.
EvaluateComposes ==
  /\ (Evaluated /\ bundle.kind = "flat")
       => bundle.puzzle = evaluate(AllPuzzles)
  /\ (Solved /\ answer.kind = "bundle" /\ bundle.kind = "nested")
       => /\ answer.out = solve(lhtlp, evaluate(AllPuzzles))
          /\ SecretSum < lhtlp.n => answer.out = Ok(SecretSum)

\* The composition when setup drew two different primes.
EvaluateComposesDistinctPrimes == DistinctPrimes => EvaluateComposes

====
